---------------------------- MODULE Spec2Model ----------------------------
(***************************************************************************)
(* A model of the selective forward HTTP proxy (src/src/app.rs, and the    *)
(* earlier single-file revision src/src/main.rs).                          *)
(*                                                                         *)
(* The module holds several specifications over one set of variables;      *)
(* each one drives a part of the program and leaves the other variables    *)
(* alone:                                                                  *)
(*   RouteSpec  Connection::resolve on concrete request heads              *)
(*   DnsSpec    Dns::resolve called from several worker threads            *)
(*   RelaySpec  Connection::send / Connection::recv on concrete bytes      *)
(*   Spec       the Acceptor, the Workers and their Connections            *)
(*   PortSpec   Connection::resolve on Host values with port suffixes      *)
(*   TickSpec   the ticks of one Worker that owns several connections      *)
(*   MainSpec   the locked-list workers of main.rs                         *)
(*   FairSpec   Spec with the Worker threads scheduled fairly              *)
(*   ConnSpec   one connection whose peers may stall, close or fail        *)
(*   MainConnSpec  one connection of main.rs and the chunks it reads       *)
(* Text is a sequence of one-character strings.                            *)
(***************************************************************************)
EXTENDS Integers, Sequences, FiniteSets, TLC

VARIABLES
    \* ---- RouteSpec: one routing decision
    rArg,        \* the value of the -h option, as typed
    rData,       \* the bytes peeked from the client
    rHost,       \* the value the client wrote in its Host header
    rOut,        \* the outcome of Connection::resolve, NoResult before the call
    \* ---- the resolution cache (Dns.cache), used by every specification
    cache,       \* set of <<key, address>> entries of the HashMap
    \* ---- DnsSpec: worker threads inside Dns::resolve
    tpc,         \* thread -> "idle" | "lookup" | "sys" | "insert" | "ret"
    tkey,        \* thread -> the key of its current call
    tres,        \* thread -> the result of its current call (NoResult before it returns)
    tsys,        \* thread -> TRUE when the current call invoked system resolution
    tseen,       \* thread -> the addresses calls for its key had returned when its call began
    returned,    \* key -> the addresses resolve(key) has returned so far
    stored,      \* key -> the addresses ever inserted into the cache for the key
    \* ---- RelaySpec: one connection past Init and Conn, with its two peers
    xState,      \* Connection.state
    xReq,        \* the request bytes the client sends, in order
    xSent,       \* how many of them have arrived at the proxy
    xRead,       \* how many of them the proxy has read from the client socket
    xCli,        \* the client: "open" | "half" (write side closed) | "closed"
    xUp,         \* the bytes the upstream has received from the proxy
    xBack,       \* the bytes the upstream has echoed back
    xBackRead,   \* how many echoed bytes the proxy has read from the upstream socket
    xUpClosed,   \* the upstream has closed its socket
    xOut,        \* the bytes the client has observed
    xEof,        \* the proxy has read end-of-stream from the upstream
    \* ---- Spec and TickSpec: the Acceptor, the Workers and their Connections
    accState,    \* the accept loop of App::start: "running" | "stopped"
    accNext,     \* the worker whose sender the next accept uses
    accErr,      \* why the accept loop stopped: "none" | "accept" | "setup" | "send"
    nAccepted,   \* how many client sockets server.accept() has returned
    chan,        \* worker -> the connections in its channel, oldest first
    wpc,         \* worker -> "sleep" | "loop" | "stopped"
    index,       \* worker -> index of handle_connections (counted from 1)
    connections, \* worker -> Worker.connections
    cstate,      \* connection -> Connection.state
    cserver,     \* connection -> Connection.server is Some
    cget,        \* connection -> "unseen" | "get" | "other": how its request starts
    cfate,       \* connection -> "none" | "live" | "Done" | the error that ended it
    cowner,      \* connection -> the worker it was sent to (0: none)
    tickStart,   \* worker -> the connections it owned after the intake of this tick
    tickDone,    \* worker -> the connections that finished in this tick
    ccalls,      \* connection -> the calls of progress() on it that returned in this tick
    \* ---- ConnSpec: one connection of one Worker, with peers that may fail
    kState,      \* Connection.state
    kServer,     \* Connection.server is Some
    kCli,        \* the client: "open" | "closed" (end-of-stream) | "reset" (error pending)
    kUp,         \* the upstream: "none" | "pending" | "connected" | "failed" | "closed" | "reset"
    kPc,         \* "sleep" (between ticks) | "call" (inside progress()) | "removed"
    kLast,       \* the last handler call: the socket operation that failed, and its result
    kSpin,       \* handler calls made inside the current progress(), modulo SpinMod
    \* ---- MainConnSpec: one connection of main.rs (with kState .. kSpin)
    kBuf,        \* the bytes of the client that have arrived and are not read yet
    kInits       \* calls of init made for the connection, up to InitCap

routeVars == <<rArg, rData, rHost, rOut>>
dnsVars == <<tpc, tkey, tres, tsys, tseen, returned, stored>>
relayVars ==
    <<xState, xReq, xSent, xRead, xCli, xUp, xBack, xBackRead, xUpClosed, xOut, xEof>>
connVars == <<kState, kServer, kCli, kUp, kPc, kLast, kSpin, kBuf, kInits>>
sysVars ==
    <<accState, accNext, accErr, nAccepted, chan, wpc, index, connections,
      cstate, cserver, cget, cfate, cowner, tickStart, tickDone, ccalls>>
vars ==
    <<rArg, rData, rHost, rOut, cache, tpc, tkey, tres, tsys, tseen, returned, stored,
      xState, xReq, xSent, xRead, xCli, xUp, xBack, xBackRead, xUpClosed, xOut, xEof,
      accState, accNext, accErr, nAccepted, chan, wpc, index, connections,
      cstate, cserver, cget, cfate, cowner, tickStart, tickDone, ccalls,
      kState, kServer, kCli, kUp, kPc, kLast, kSpin, kBuf, kInits>>

NoResult == [kind |-> "none"]

(***************************************************************************)
(* Text helpers: the std operations the code applies to the request head.  *)
(***************************************************************************)
Uppers == <<"A", "B", "E", "G", "H", "O", "S", "T">>
Lowers == <<"a", "b", "e", "g", "h", "o", "s", "t">>

\* u8::to_ascii_lowercase
LowerChar(c) ==
    IF \E i \in 1..Len(Uppers) : Uppers[i] = c
    THEN Lowers[CHOOSE i \in 1..Len(Uppers) : Uppers[i] = c]
    ELSE c

\* str::make_ascii_lowercase
make_ascii_lowercase(s) == [i \in 1..Len(s) |-> LowerChar(s[i])]

IsWhite(c) == c \in {" ", "\t", "\r", "\n"}

RECURSIVE trim_start(_)
trim_start(s) ==
    IF s # <<>> /\ IsWhite(Head(s)) THEN trim_start(Tail(s)) ELSE s

RECURSIVE trim_end(_)
trim_end(s) ==
    IF s # <<>> /\ IsWhite(s[Len(s)]) THEN trim_end(SubSeq(s, 1, Len(s) - 1)) ELSE s

trim(s) == trim_end(trim_start(s))

starts_with(s, p) == Len(s) >= Len(p) /\ SubSeq(s, 1, Len(p)) = p

\* str::contains for a pattern of one or two characters
contains(s, p) == \E i \in 1..Len(s) : starts_with(SubSeq(s, i, Len(s)), p)

\* str::split(sep): the pieces between the occurrences of the character sep
RECURSIVE split(_, _)
split(s, sep) ==
    IF \E i \in 1..Len(s) : s[i] = sep
    THEN LET i == CHOOSE j \in 1..Len(s) : s[j] = sep /\ \A k \in 1..(j - 1) : s[k] # sep
         IN  <<SubSeq(s, 1, i - 1)>> \o split(SubSeq(s, i + 1, Len(s)), sep)
    ELSE <<s>>

\* str::lines: split on "\n", a final empty piece is dropped, and a "\r" that
\* ends a line is removed
StripCr(l) == IF l # <<>> /\ l[Len(l)] = "\r" THEN SubSeq(l, 1, Len(l) - 1) ELSE l
StripAll(cut) == [i \in 1..Len(cut) |-> StripCr(cut[i])]
DropLastEmpty(raw) == IF raw[Len(raw)] = <<>> THEN SubSeq(raw, 1, Len(raw) - 1) ELSE raw
lines(s) == StripAll(DropLastEmpty(split(s, "\n")))

Range(f) == {f[i] : i \in DOMAIN f}

(***************************************************************************)
(* Bounds of the model.                                                    *)
(***************************************************************************)
\* how many different first addresses system resolution may give for one name
NumAddrs == 2
\* worker threads that call Dns::resolve
NumThreads == 2
\* the longest request of RelaySpec: two full buffers and one byte
MaxReq == 7
\* worker threads of the pool
NumWorkers == 2
\* client connections the Acceptor accepts in Spec
MaxConns == 3
\* connections given to the one busy Worker of TickSpec
MaxVec == 3
\* the calls of progress() on one connection in one tick are counted up to this
CallCap == 2

(***************************************************************************)
(* Program constants.                                                      *)
(***************************************************************************)
GET == <<"G", "E", "T">>
HOST_HEADER == <<"h", "o", "s", "t", ":">>
\* the size of the scratch buffer, scaled down from 4096 bytes
BUFFER_SIZE == 3
\* a byte that is not valid UTF-8
InvalidByte == "<ff>"
\* App.proxy, the configured upstream proxy address
ProxyAddr == [name |-> <<"p", "x">>, port |-> 8080, n |-> 1]

(***************************************************************************)
(* The -h option (main.rs): the host set is the comma-separated pieces of  *)
(* the argument, each trimmed, stored as typed.                            *)
(***************************************************************************)
HostsFromArg(arg) == {trim(piece) : piece \in Range(split(arg, ","))}

(***************************************************************************)
(* Dns::resolve.                                                           *)
(***************************************************************************)
Digits == <<"0", "1", "2", "3", "4", "5", "6", "7", "8", "9">>
IsDigit(c) == \E i \in 1..10 : Digits[i] = c
DigitValue(c) == (CHOOSE i \in 1..10 : Digits[i] = c) - 1

\* str::parse::<u16>: -1 when the text is not a port number
RECURSIVE ParseNat(_, _)
ParseNat(s, acc) ==
    IF s = <<>> THEN acc
    ELSE IF ~IsDigit(Head(s)) THEN -1
    ELSE ParseNat(Tail(s), 10 * acc + DigitValue(Head(s)))

ParsePort(s) ==
    LET v == IF s = <<>> THEN -1 ELSE ParseNat(s, 0)
    IN  IF v > 65535 THEN -1 ELSE v

LastIndexOf(s, c) ==
    IF \E i \in 1..Len(s) : s[i] = c
    THEN CHOOSE i \in 1..Len(s) : s[i] = c /\ \A k \in (i + 1)..Len(s) : s[k] # c
    ELSE 0

\* The name and port handed to system resolution (app.rs 371-377): the text is
\* taken as host:port when it holds a port suffix, else the port is 80.
\* <str as ToSocketAddrs> splits at the last ':' and parses the port.
\* mutant: the port suffix is never looked at
SysTarget_Port80(host) == [ok |-> TRUE, name |-> host, port |-> 80]

WithPort(name, port) == [ok |-> port >= 0, name |-> name, port |-> port]
SplitPort(host, i) == WithPort(SubSeq(host, 1, i - 1), ParsePort(SubSeq(host, i + 1, Len(host))))
HasPort(host, v6) == (v6 /\ contains(host, <<"]", ":">>)) \/ (~v6 /\ contains(host, <<":">>))
SysTarget(host) ==
    IF HasPort(host, starts_with(host, <<"[">>))
    THEN SplitPort(host, LastIndexOf(host, ":"))
    ELSE [ok |-> TRUE, name |-> host, port |-> 80]

\* What system resolution answers: answer 0 is a failure or an empty result,
\* answer n the n-th address the name may resolve to first.
SysAnswers == 0..NumAddrs

SysAddr(t, answer) ==
    IF ~t.ok \/ t.name = <<>> \/ answer = 0
    THEN [ok |-> FALSE]
    ELSE [ok |-> TRUE, addr |-> [name |-> t.name, port |-> t.port, n |-> answer]]

SysResolve(host, answer) == SysAddr(SysTarget(host), answer)

\* HashMap::get
CacheGet(cch, key) == {e[2] : e \in {x \in cch : x[1] = key}}

\* mutant: the insert is forgotten
CacheInsert_Forgotten(cch, key, addr) == cch

\* mutant: the new entry is added beside the old one
CacheInsert_KeepOld(cch, key, addr) == cch \cup {<<key, addr>>}

\* HashMap::insert: the entry of the key is replaced
CacheInsert(cch, key, addr) == {e \in cch : e[1] # key} \cup {<<key, addr>>}

\* Dns::resolve run without interruption by one thread (app.rs 366-388)
\* the second half of Dns::resolve (app.rs 371-387): r is what system
\* resolution gave
Dns_store(cch, host, r) ==
    IF r.ok
    THEN [kind |-> "ok", addr |-> r.addr,
          cache |-> CacheInsert(cch, host, r.addr), sys |-> TRUE]
    ELSE [kind |-> "err", err |-> "DnsError", cache |-> cch, sys |-> TRUE]

Dns_resolve(cch, host, answer) ==
    IF CacheGet(cch, host) # {}
    THEN [kind |-> "ok", addr |-> CHOOSE a \in CacheGet(cch, host) : TRUE,
          cache |-> cch, sys |-> FALSE]
    ELSE Dns_store(cch, host, SysResolve(host, answer))

(***************************************************************************)
(* Connection::check_http and Connection::resolve.                         *)
(***************************************************************************)
\* mutant: only the length of the head is looked at
check_http_LengthOnly(data) == Len(data) > Len(GET)

check_http(data) == Len(data) > Len(GET) /\ SubSeq(data, 1, Len(GET)) = GET

\* str::from_utf8_mut
from_utf8(data) == \A i \in 1..Len(data) : data[i] # InvalidByte

\* The Host header value of the lowercased head (app.rs 239-252)
HostValue(l) == [ok |-> TRUE, host |-> trim(SubSeq(l, Len(HOST_HEADER) + 1, Len(l)))]
FirstOf(hit) == CHOOSE j \in hit : \A k \in hit : j <= k
HostOf(ls, hit) == IF hit = {} THEN [ok |-> FALSE] ELSE HostValue(trim_start(ls[FirstOf(hit)]))
HostIn(ls) == HostOf(ls, {i \in 1..Len(ls) : starts_with(trim_start(ls[i]), HOST_HEADER)})
HostLine(content) == HostIn(lines(content))

\* Connection::resolve (app.rs 238-266); dns tells whether Dns::resolve was called
\* the direct route (app.rs 258-262): d is the result of Dns::resolve
Direct(d) ==
    IF d.kind = "ok"
    THEN [kind |-> "ok", route |-> "DIRECT", addr |-> d.addr, cache |-> d.cache, dns |-> TRUE]
    ELSE [kind |-> "err", err |-> d.err, cache |-> d.cache, dns |-> TRUE]

\* the choice of the route (app.rs 252-265): h is the Host header found
Routed(hosts, h, cch, answer) ==
    IF ~h.ok
    THEN [kind |-> "err", err |-> "ParseError", cache |-> cch, dns |-> FALSE]
    ELSE IF h.host \in hosts
    THEN [kind |-> "ok", route |-> "PROXY", addr |-> ProxyAddr, cache |-> cch, dns |-> FALSE]
    ELSE Direct(Dns_resolve(cch, h.host, answer))

resolve(hosts, data, cch, answer) ==
    IF ~from_utf8(data)
    THEN [kind |-> "err", err |-> "ParseError", cache |-> cch, dns |-> FALSE]
    ELSE Routed(hosts, HostLine(make_ascii_lowercase(data)), cch, answer)

(***************************************************************************)
(* RouteSpec: one request head, one host set, one call of resolve.         *)
(***************************************************************************)
\* host names in varied letter case
SampleNames ==
    {<<"a", "b">>, <<"A", "b">>, <<"a", "B">>, <<"A", "B">>, <<"b">>, <<"B">>}

\* -h arguments: one name, or two names separated by a comma and a blank
SampleArgs ==
    SampleNames \cup {x \o <<",", " ">> \o y : x \in {<<"a", "b">>, <<"A", "B">>}, y \in SampleNames}

SampleHeaderNames ==
    {<<"h", "o", "s", "t", ":">>, <<"H", "o", "s", "t", ":">>, <<"H", "O", "S", "T", ":">>}

\* a GET request head with one Host header
RequestHead(name, value) ==
    <<"G", "E", "T", " ", "/", "\r", "\n">> \o name \o <<" ">> \o value \o <<"\r", "\n">>

RelayIdle ==
    /\ xState = "Done" /\ xReq = <<>> /\ xSent = 0 /\ xRead = 0 /\ xCli = "closed"
    /\ xUp = <<>> /\ xBack = <<>> /\ xBackRead = 0 /\ xUpClosed = TRUE
    /\ xOut = <<>> /\ xEof = FALSE

SysIdle ==
    /\ accState = "stopped" /\ accNext = 1 /\ accErr = "none" /\ nAccepted = 0
    /\ chan = <<>> /\ wpc = <<>> /\ index = <<>> /\ connections = <<>>
    /\ cstate = <<>> /\ cserver = <<>> /\ cget = <<>> /\ cfate = <<>> /\ cowner = <<>>
    /\ tickStart = <<>> /\ tickDone = <<>> /\ ccalls = <<>>

\* no state handler has been called yet in this tick
KNone == [handler |-> "none", failed |-> "none", kind |-> "none", ret |-> FALSE]

ConnIdle ==
    /\ kState = "Done" /\ kServer = FALSE /\ kCli = "closed" /\ kUp = "none"
    /\ kPc = "removed" /\ kLast = KNone /\ kSpin = 0
    /\ kBuf = <<>> /\ kInits = 0

DnsIdle ==
    /\ tpc = <<>> /\ tkey = <<>> /\ tres = <<>>
    /\ tsys = <<>> /\ tseen = <<>> /\ returned = <<>> /\ stored = <<>>

RouteInit ==
    /\ rArg \in SampleArgs
    /\ rHost \in SampleNames
    /\ \E name \in SampleHeaderNames : rData = RequestHead(name, rHost)
    /\ rOut = NoResult
    /\ cache = {}
    /\ DnsIdle
    /\ RelayIdle
    /\ SysIdle
    /\ ConnIdle

\* Connection::init calls resolve on the peeked head
RouteResolve ==
    /\ rOut = NoResult
    /\ \E answer \in SysAnswers :
         LET r == resolve(HostsFromArg(rArg), rData, cache, answer)
         IN  /\ rOut' = r
             /\ cache' = r.cache
    /\ UNCHANGED <<rArg, rData, rHost, dnsVars, relayVars, sysVars, connVars>>

RouteNext == RouteResolve

RouteSpec == RouteInit /\ [][RouteNext]_vars

\* the configured host set holds the name, letter case ignored
InHostSet(host) ==
    \E g \in HostsFromArg(rArg) : make_ascii_lowercase(g) = make_ascii_lowercase(host)

\* C7: a request whose Host header names a configured host, in any letter case
\* on either side, is routed PROXY to the configured proxy address without
\* consulting the resolver; every other request is routed DIRECT and its target
\* is the resolver's result.
C7_RoutingDecision ==
    rOut # NoResult =>
        IF InHostSet(rHost)
        THEN rOut.kind = "ok" /\ rOut.route = "PROXY" /\ rOut.addr = ProxyAddr /\ ~rOut.dns
        ELSE /\ rOut.dns
             /\ rOut.kind = "ok" =>
                  /\ rOut.route = "DIRECT"
                  /\ rOut.addr \in CacheGet(cache, make_ascii_lowercase(rHost))

(***************************************************************************)
(* PortSpec: one call of Connection::resolve for a request whose Host      *)
(* header holds a name or a bracketed IPv6 literal, with or without a port *)
(* suffix.  No such value is in the host set, so each is resolved by       *)
(* Dns::resolve.                                                           *)
(***************************************************************************)
PortNames == {<<"a">>, <<"a", "b">>, <<"b", ".", "a">>}
V6Literals == {<<"[", ":", ":", "1", "]">>, <<"[", "a", ":", ":", "b", "]">>}

\* port suffixes as written, with the number each one stands for
PortTexts ==
    { [text |-> <<"1">>, port |-> 1],
      [text |-> <<"8", "0">>, port |-> 80],
      [text |-> <<"4", "4", "3">>, port |-> 443],
      [text |-> <<"8", "0", "8", "0">>, port |-> 8080],
      [text |-> <<"6", "5", "5", "3", "5">>, port |-> 65535] }

\* Host header values with the port each one names
PortSamples ==
    {[text |-> n, port |-> 80] : n \in PortNames \cup V6Literals} \cup
    {[text |-> n \o <<":">> \o p.text, port |-> p.port] :
        n \in PortNames \cup V6Literals, p \in PortTexts}

PortInit ==
    /\ rArg = <<"x">>
    /\ \E s \in PortSamples : rHost = s.text
    /\ \E name \in SampleHeaderNames : rData = RequestHead(name, rHost)
    /\ rOut = NoResult
    /\ cache = {}
    /\ DnsIdle
    /\ RelayIdle
    /\ SysIdle
    /\ ConnIdle

PortSpec == PortInit /\ [][RouteNext]_vars

C12_DefaultPort ==
    /\ rOut.kind = "ok" /\ rOut.route = "DIRECT"
    /\ ~contains(rHost, <<":">>) /\ rOut.addr.port = 80

(***************************************************************************)
(* DnsSpec: worker threads call Dns::resolve concurrently.  The lock of    *)
(* Dns.cache is held for one map operation at a time (the guard returned   *)
(* by Dns::cache is a temporary of the statement that uses it), so the     *)
(* lookup and the insert are one step each and system resolution runs      *)
(* between them with the lock released.  No step panics while it holds the *)
(* lock, so the lock is never poisoned.                                    *)
(***************************************************************************)
Threads == 1..NumThreads
DnsKeys == {<<"a">>, <<"b">>}

RouteIdle == rArg = <<>> /\ rData = <<>> /\ rHost = <<>> /\ rOut = NoResult

DnsInit ==
    /\ RouteIdle
    /\ RelayIdle
    /\ SysIdle
    /\ ConnIdle
    /\ cache = {}
    /\ tpc = [t \in Threads |-> "idle"]
    /\ tkey = [t \in Threads |-> <<>>]
    /\ tres = [t \in Threads |-> NoResult]
    /\ tsys = [t \in Threads |-> FALSE]
    /\ tseen = [t \in Threads |-> {}]
    /\ returned = [k \in DnsKeys |-> {}]
    /\ stored = [k \in DnsKeys |-> {}]

\* a worker calls self.app.dns.resolve(host)
DnsCall(t) ==
    /\ tpc[t] = "idle"
    /\ \E k \in DnsKeys :
         /\ tkey' = [tkey EXCEPT ![t] = k]
         /\ tseen' = [tseen EXCEPT ![t] = returned[k]]
    /\ tpc' = [tpc EXCEPT ![t] = "lookup"]
    /\ UNCHANGED <<routeVars, relayVars, sysVars, connVars, cache, tres, tsys, returned, stored>>

\* if let Some(cached) = self.cache()?.get(host) { return Ok(*cached) }
DnsLookup(t) ==
    /\ tpc[t] = "lookup"
    /\ IF CacheGet(cache, tkey[t]) # {}
       THEN /\ tres' = [tres EXCEPT ![t] =
                    [kind |-> "ok", addr |-> CHOOSE a \in CacheGet(cache, tkey[t]) : TRUE]]
            /\ tpc' = [tpc EXCEPT ![t] = "ret"]
       ELSE /\ tpc' = [tpc EXCEPT ![t] = "sys"]
            /\ UNCHANGED tres
    /\ UNCHANGED <<routeVars, relayVars, sysVars, connVars, cache, tkey, tsys, tseen, returned, stored>>

\* to_socket_addrs and resolved.next(), outside the lock
DnsSystem(t) ==
    /\ tpc[t] = "sys"
    /\ \E answer \in SysAnswers :
         LET r == SysResolve(tkey[t], answer)
         IN  IF r.ok
             THEN /\ tres' = [tres EXCEPT ![t] = [kind |-> "found", addr |-> r.addr]]
                  /\ tpc' = [tpc EXCEPT ![t] = "insert"]
             ELSE /\ tres' = [tres EXCEPT ![t] = [kind |-> "err", err |-> "DnsError"]]
                  /\ tpc' = [tpc EXCEPT ![t] = "ret"]
    /\ tsys' = [tsys EXCEPT ![t] = TRUE]
    /\ UNCHANGED <<routeVars, relayVars, sysVars, connVars, cache, tkey, tseen, returned, stored>>

\* self.cache()?.insert(host.to_owned(), addr)
DnsInsert(t) ==
    /\ tpc[t] = "insert"
    /\ cache' = CacheInsert(cache, tkey[t], tres[t].addr)
    /\ stored' = [stored EXCEPT ![tkey[t]] = @ \cup {tres[t].addr}]
    /\ tres' = [tres EXCEPT ![t] = [kind |-> "ok", addr |-> tres[t].addr]]
    /\ tpc' = [tpc EXCEPT ![t] = "ret"]
    /\ UNCHANGED <<routeVars, relayVars, sysVars, connVars, tkey, tsys, tseen, returned>>

\* the call returns its result to the worker
DnsReturn(t) ==
    /\ tpc[t] = "ret"
    /\ returned' = [returned EXCEPT ![tkey[t]] =
                       IF tres[t].kind = "ok" THEN @ \cup {tres[t].addr} ELSE @]
    /\ tpc' = [tpc EXCEPT ![t] = "idle"]
    /\ tkey' = [tkey EXCEPT ![t] = <<>>]
    /\ tres' = [tres EXCEPT ![t] = NoResult]
    /\ tsys' = [tsys EXCEPT ![t] = FALSE]
    /\ tseen' = [tseen EXCEPT ![t] = {}]
    /\ UNCHANGED <<routeVars, relayVars, sysVars, connVars, cache, stored>>

DnsNext ==
    \E t \in Threads :
        DnsCall(t) \/ DnsLookup(t) \/ DnsSystem(t) \/ DnsInsert(t) \/ DnsReturn(t)

DnsSpec == DnsInit /\ [][DnsNext]_vars

\* the call of thread t began after some call for the same key had returned an address
LaterCall(t) == tpc[t] # "idle" /\ tseen[t] # {}

\* C5 as stated: a call that began after resolve(k) had returned an address a
\* returns that same address a, without system resolution.
C5_LaterCallSameAddress ==
    \A t \in Threads :
        LaterCall(t) =>
            /\ ~tsys[t]
            /\ (tpc[t] = "ret" => tres[t].kind = "ok" /\ tseen[t] = {tres[t].addr})

\* C5 amended: a call that began after resolve(k) had returned an address is
\* served from the cache, never invoking system resolution, and returns an
\* address stored in the cache for k; it is the address returned before as long
\* as no racing call has overwritten the entry with another address.
C5_LaterCallCacheHit ==
    \A t \in Threads :
        LaterCall(t) =>
            /\ ~tsys[t]
            /\ tpc[t] \in {"lookup", "ret"}
            /\ tpc[t] = "ret" =>
                 /\ tres[t].kind = "ok"
                 /\ tres[t].addr \in stored[tkey[t]]
                 /\ Cardinality(stored[tkey[t]]) = 1 => tseen[t] = {tres[t].addr}

\* a later call has been answered from the cache
C5_Witness ==
    \E t \in Threads : LaterCall(t) /\ tpc[t] = "ret" /\ tres[t].kind = "ok"

\* an address system resolution may give for the key
ValidAddr(k, a) == \E n \in 1..NumAddrs : SysResolve(k, n) = [ok |-> TRUE, addr |-> a]

\* at most one entry per key, and every entry is an address of its key
CacheWellFormed ==
    /\ \A k \in DnsKeys : Cardinality(CacheGet(cache, k)) <= 1
    /\ \A e \in cache : e[1] \in DnsKeys /\ ValidAddr(e[1], e[2])
    /\ \A k \in DnsKeys : stored[k] # {} => CacheGet(cache, k) \subseteq stored[k]
    /\ \A k \in DnsKeys : stored[k] # {} => CacheGet(cache, k) # {}

\* C6 as stated: the cache is well formed and every address a call is about to
\* return for a key equals the value stored in the cache for that key.
C6_ReturnedEqualsStored ==
    /\ CacheWellFormed
    /\ \A t \in Threads :
         (tpc[t] = "ret" /\ tres[t].kind = "ok") =>
             CacheGet(cache, tkey[t]) = {tres[t].addr}

\* C6 amended: the cache holds at most one entry per key, an entry is never
\* removed and is only overwritten with an address of the same key (last
\* writer wins), and every address returned for a key is one that is or was
\* stored in the cache for that key: the current one unless a racing call has
\* overwritten it with a different address.
C6_CacheNeverCorrupted ==
    /\ CacheWellFormed
    /\ \A t \in Threads :
         (tpc[t] = "ret" /\ tres[t].kind = "ok") =>
             /\ tres[t].addr \in stored[tkey[t]]
             /\ Cardinality(stored[tkey[t]]) = 1 => CacheGet(cache, tkey[t]) = {tres[t].addr}

\* two racing calls have inserted different addresses for one key and one of
\* them is returning
C6_Witness ==
    \E t \in Threads :
        /\ tpc[t] = "ret" /\ tres[t].kind = "ok" /\ tsys[t]
        /\ Cardinality(stored[tkey[t]]) = 2

(***************************************************************************)
(* The state handlers of Connection.  Each is a function of the results of *)
(* the socket operations it performs and yields what it returns (ret, or   *)
(* an error), the next state, and the number n of bytes its read consumed. *)
(* A read or peek result is a byte count, WouldBlock or OtherError.        *)
(***************************************************************************)
WouldBlock == -1
OtherError == -2

Ok(ret, state, n) == [kind |-> "ok", err |-> "none", ret |-> ret, state |-> state, n |-> n]
Err(e, state, n) == [kind |-> "err", err |-> e, ret |-> FALSE, state |-> state, n |-> n]

\* mutant: end-of-stream from the client is taken for "no data yet"
send_EofIgnored(server, read, writeOk) ==
    IF read <= 0 THEN Ok(FALSE, "Send", 0)
    ELSE IF ~server THEN Err("Unknown", "Send", read)
    ELSE IF ~writeOk THEN Err("IOError", "Send", read)
    ELSE Ok(TRUE, IF read < BUFFER_SIZE THEN "Recv" ELSE "Send", read)

\* mutant: an empty read ends the connection at once
send_EofIsDone(server, read, writeOk) ==
    IF read < 0 THEN Ok(FALSE, "Send", 0)
    ELSE IF read = 0 THEN Ok(TRUE, "Done", 0)
    ELSE IF ~server THEN Err("Unknown", "Send", read)
    ELSE IF ~writeOk THEN Err("IOError", "Send", read)
    ELSE Ok(TRUE, IF read < BUFFER_SIZE THEN "Recv" ELSE "Send", read)

\* Connection::send (app.rs 291-314)
send(server, read, writeOk) ==
    IF read < 0 THEN Ok(FALSE, "Send", 0)
    ELSE IF read = 0 THEN Ok(TRUE, "Recv", 0)
    ELSE IF ~server THEN Err("Unknown", "Send", read)
    ELSE IF ~writeOk THEN Err("IOError", "Send", read)
    ELSE Ok(TRUE, IF read < BUFFER_SIZE THEN "Recv" ELSE "Send", read)

\* Connection::recv (app.rs 316-342)
recv(server, peek, read, writeOk) ==
    IF ~server THEN Err("Unknown", "Recv", 0)
    ELSE IF peek = 0 \/ peek = OtherError THEN Ok(TRUE, "Done", 0)
    ELSE IF read < 0 THEN Ok(FALSE, "Recv", 0)
    ELSE IF read = 0 THEN Ok(TRUE, "Done", 0)
    ELSE IF ~writeOk THEN Err("IOError", "Recv", read)
    ELSE Ok(TRUE, "Recv", read)

\* the result of Connection::init, which also tells whether Connection.server
\* was set and what the resolution cache holds afterwards
InitResult(r, server, cch) ==
    [kind |-> r.kind, err |-> r.err, ret |-> r.ret, state |-> r.state, n |-> 0,
     server |-> server, cache |-> cch]

\* mutant: the state is advanced but the upstream socket is not stored
Connected_NoServer(r, connectOk) ==
    IF r.kind = "err" THEN InitResult(Err(r.err, "Init", 0), FALSE, r.cache)
    ELSE IF ~connectOk THEN InitResult(Err("IOError", "Init", 0), FALSE, r.cache)
    ELSE InitResult(Ok(TRUE, "Conn", 0), FALSE, r.cache)

\* the end of Connection::init (app.rs 226-231): r is the result of resolve,
\* connectOk that of the connect to the resolved address
Connected(r, connectOk) ==
    IF r.kind = "err" THEN InitResult(Err(r.err, "Init", 0), FALSE, r.cache)
    ELSE IF ~connectOk THEN InitResult(Err("IOError", "Init", 0), FALSE, r.cache)
    ELSE InitResult(Ok(TRUE, "Conn", 0), TRUE, r.cache)

\* Connection::init (app.rs 215-232); peek is [ok |-> FALSE] or the bytes peeked
init(hosts, peek, cch, answer, connectOk) ==
    IF ~peek.ok THEN InitResult(Ok(FALSE, "Init", 0), FALSE, cch)
    ELSE IF ~check_http(peek.data) THEN InitResult(Err("NotHttp", "Init", 0), FALSE, cch)
    ELSE Connected(resolve(hosts, peek.data, cch, answer), connectOk)

\* Connection::connect (app.rs 268-289); peer and nodelay are the results of
\* server.peer_addr() and server.set_nodelay(true)
connect(server, peer, nodelay) ==
    IF ~server THEN Err("Unknown", "Conn", 0)
    ELSE IF peer \in {"NotConnected", "WouldBlock"} THEN Ok(FALSE, "Conn", 0)
    ELSE IF peer # "ok" THEN Err("IOError", "Conn", 0)
    ELSE IF nodelay = "InvalidInput" THEN Ok(FALSE, "Conn", 0)
    ELSE IF nodelay # "ok" THEN Err("IOError", "Conn", 0)
    ELSE Ok(TRUE, "Send", 0)

(***************************************************************************)
(* RelaySpec: one connection whose Init and Conn steps have succeeded      *)
(* (Init only peeks, so no request byte is consumed yet), a client that    *)
(* sends a request of N bytes and an upstream that echoes what it gets.    *)
(* Both peers are healthy: no reset, and no send buffer ever fills, so     *)
(* write_all succeeds.  The upstream closes only after the proxy has left  *)
(* the request phase and everything it received has been echoed.           *)
(***************************************************************************)
Min(a, b) == IF a < b THEN a ELSE b

\* Read::read / peek on a non-blocking socket with avail bytes buffered
SocketRead(avail, eof, len) ==
    IF avail > 0 THEN Min(avail, len)
    ELSE IF eof THEN 0
    ELSE WouldBlock

RelayInit ==
    /\ RouteIdle /\ DnsIdle /\ SysIdle /\ ConnIdle /\ cache = {}
    /\ xState = "Send"
    /\ \E n \in 0..MaxReq : xReq = [i \in 1..n |-> i]
    /\ xSent = 0 /\ xRead = 0 /\ xCli = "open"
    /\ xUp = <<>> /\ xBack = <<>> /\ xBackRead = 0 /\ xUpClosed = FALSE
    /\ xOut = <<>> /\ xEof = FALSE

\* more request bytes arrive at the proxy
ClientSend ==
    /\ xCli = "open" /\ xSent < Len(xReq)
    /\ \E k \in (xSent + 1)..Len(xReq) : xSent' = k
    /\ UNCHANGED <<routeVars, dnsVars, sysVars, connVars, cache, xState, xReq, xRead, xCli, xUp, xBack,
                   xBackRead, xUpClosed, xOut, xEof>>

\* the client, having sent its request, closes its write side
ClientShutdown ==
    /\ xCli = "open" /\ xSent = Len(xReq)
    /\ xCli' = "half"
    /\ UNCHANGED <<routeVars, dnsVars, sysVars, connVars, cache, xState, xReq, xSent, xRead, xUp, xBack,
                   xBackRead, xUpClosed, xOut, xEof>>

\* the client closes its socket
ClientClose ==
    /\ xCli # "closed" /\ xSent = Len(xReq)
    /\ xCli' = "closed"
    /\ UNCHANGED <<routeVars, dnsVars, sysVars, connVars, cache, xState, xReq, xSent, xRead, xUp, xBack,
                   xBackRead, xUpClosed, xOut, xEof>>

\* the upstream echoes more of what it has received
UpstreamEcho ==
    /\ ~xUpClosed /\ Len(xBack) < Len(xUp)
    /\ \E k \in (Len(xBack) + 1)..Len(xUp) : xBack' = SubSeq(xUp, 1, k)
    /\ UNCHANGED <<routeVars, dnsVars, sysVars, connVars, cache, xState, xReq, xSent, xRead, xCli, xUp,
                   xBackRead, xUpClosed, xOut, xEof>>

\* the upstream closes after echoing everything it received
UpstreamClose ==
    /\ ~xUpClosed /\ xState \in {"Recv", "Done"} /\ xBack = xUp
    /\ xUpClosed' = TRUE
    /\ UNCHANGED <<routeVars, dnsVars, sysVars, connVars, cache, xState, xReq, xSent, xRead, xCli, xUp,
                   xBack, xBackRead, xOut, xEof>>

\* Connection::progress calls send (state Send)
RelaySend ==
    /\ xState = "Send"
    /\ LET read == SocketRead(xSent - xRead, xCli # "open", BUFFER_SIZE)
           r == send(TRUE, read, TRUE)
       IN  /\ xState' = r.state
           /\ xRead' = xRead + r.n
           /\ xUp' = xUp \o SubSeq(xReq, xRead + 1, xRead + r.n)
    /\ UNCHANGED <<routeVars, dnsVars, sysVars, connVars, cache, xReq, xSent, xCli, xBack, xBackRead,
                   xUpClosed, xOut, xEof>>

\* Connection::progress calls recv (state Recv)
RelayRecv ==
    /\ xState = "Recv"
    /\ LET peek == SocketRead(xSent - xRead, xCli # "open", 1)
           read == SocketRead(Len(xBack) - xBackRead, xUpClosed, BUFFER_SIZE)
           r == recv(TRUE, peek, read, TRUE)
       IN  /\ xState' = r.state
           /\ xBackRead' = xBackRead + r.n
           /\ xOut' = IF xCli = "closed" THEN xOut
                      ELSE xOut \o SubSeq(xBack, xBackRead + 1, xBackRead + r.n)
           /\ xEof' = (xEof \/ (r.state = "Done" /\ peek # 0 /\ read = 0))
    /\ UNCHANGED <<routeVars, dnsVars, sysVars, connVars, cache, xReq, xSent, xRead, xCli, xUp, xBack,
                   xUpClosed>>

RelayProgress == RelaySend \/ RelayRecv

RelayNext ==
    \/ ClientSend \/ ClientShutdown \/ ClientClose
    \/ UpstreamEcho \/ UpstreamClose
    \/ RelaySend \/ RelayRecv

RelaySpec == RelayInit /\ [][RelayNext]_vars

\* the Worker keeps ticking, so a handler that can change something is called
RelayFairSpec == RelaySpec /\ WF_vars(RelayProgress)

\* C3: with an upstream that echoes what it receives, a client that keeps its
\* connection open has observed exactly the bytes of its request, in order,
\* when the connection is done.
C3_ByteExactRelay ==
    (xState = "Done" /\ xCli = "open") => xOut = xReq

C4_UpstreamCloseSeen == xState = "Done" /\ xEof /\ xUpClosed /\ xOut = xReq /\ xReq # <<>>

(***************************************************************************)
(* Spec: the Acceptor (App::start, App::accept), the Workers (Worker::run, *)
(* Worker::handle_connections) and the state machine of every Connection   *)
(* (Connection::progress).  A socket operation of a handler may give any   *)
(* result the peers and the system allow; one step of a Worker is one call *)
(* of a state handler, with what handle_connections does on its return.    *)
(***************************************************************************)
Workers == 1..NumWorkers
Ids == 1..MaxConns

\* a peek that returns less than the request method
PeekShort == 2

\* App.hosts in Spec
SpecHosts == {<<"a">>}

\* what a client may send: a GET for a proxied host, a GET for another host,
\* a GET without a Host header, and a request that is no GET
Requests ==
    { RequestHead(<<"h", "o", "s", "t", ":">>, <<"a">>),
      RequestHead(<<"H", "o", "s", "t", ":">>, <<"b">>),
      <<"G", "E", "T", " ", "/", "\r", "\n", "\r", "\n">>,
      <<"P", "O", "S", "T", " ", "/", "\r", "\n">> }

\* results of client.peek in Connection::init: no data yet (or an error), or
\* the part of the request that has arrived: nothing (the client closed), its
\* first PeekShort bytes, or all of it
Peeks == {[ok |-> FALSE]} \cup
         UNION {{[ok |-> TRUE, data |-> SubSeq(req, 1, k), get |-> starts_with(req, GET)] :
                    k \in {0, PeekShort, Len(req)}} : req \in Requests}

ReadResults == {OtherError, WouldBlock} \cup (0..BUFFER_SIZE)
PeekResults == {OtherError, WouldBlock, 0, 1}
PeerResults == {"ok", "NotConnected", "WouldBlock", "error"}
NodelayResults == {"ok", "InvalidInput", "error"}

Count(seq, c) == Cardinality({i \in DOMAIN seq : seq[i] = c})

\* mutant: the last connection is dropped in place of the finished one
swap_remove_PopOnly(conns, i) ==
    [conns |-> SubSeq(conns, 1, Len(conns) - 1), brk |-> i > Len(conns) - 1]

\* mutant: the last connection is copied over the finished one and not popped
swap_remove_NoPop(conns, i) ==
    [conns |-> [conns EXCEPT ![i] = conns[Len(conns)]], brk |-> i > Len(conns) - 1]

\* the removal of the finished connection at index i (app.rs 170-178): pop the
\* last one and, unless i was the last, store it at i; brk tells that the loop
\* is left
swap_remove(conns, i) ==
    LET last == conns[Len(conns)]
        rest == SubSeq(conns, 1, Len(conns) - 1)
    IN  IF i > Len(rest)
        THEN [conns |-> rest, brk |-> TRUE]
        ELSE [conns |-> [rest EXCEPT ![i] = last], brk |-> FALSE]

SysInit ==
    /\ accState = "running" /\ accNext = 1 /\ accErr = "none" /\ nAccepted = 0
    /\ chan = [w \in Workers |-> <<>>]
    /\ wpc = [w \in Workers |-> "sleep"]
    /\ index = [w \in Workers |-> 1]
    /\ connections = [w \in Workers |-> <<>>]
    /\ cstate = [c \in Ids |-> "Init"]
    /\ cserver = [c \in Ids |-> FALSE]
    /\ cget = [c \in Ids |-> "unseen"]
    /\ cfate = [c \in Ids |-> "none"]
    /\ cowner = [c \in Ids |-> 0]
    /\ tickStart = [w \in Workers |-> {}]
    /\ tickDone = [w \in Workers |-> {}]
    /\ ccalls = [c \in Ids |-> 0]

Init == RouteIdle /\ DnsIdle /\ RelayIdle /\ ConnIdle /\ cache = {} /\ SysInit

otherVars == <<routeVars, dnsVars, relayVars, connVars>>

\* mutant: the same sender is used again
next_sender_Same(w) == w

\* for sender in &senders, inside loop (app.rs 83-87): the sender after w,
\* the first one again after the last
next_sender(w) == (w % NumWorkers) + 1

\* App::accept for the next worker in turn (app.rs 83-87, 91-108): setupOk tells
\* whether set_nonblocking and set_nodelay succeeded on the accepted socket
Accept ==
    /\ accState = "running" /\ nAccepted < MaxConns
    /\ LET c == nAccepted + 1
           w == accNext
       IN  /\ nAccepted' = c
           /\ \E setupOk \in BOOLEAN :
                IF ~setupOk
                THEN /\ accState' = "stopped" /\ accErr' = "setup"
                     /\ cfate' = [cfate EXCEPT ![c] = "setup"]
                     /\ UNCHANGED <<accNext, chan, cowner>>
                ELSE IF wpc[w] = "stopped"
                THEN /\ accState' = "stopped" /\ accErr' = "send"
                     /\ cfate' = [cfate EXCEPT ![c] = "send"]
                     /\ UNCHANGED <<accNext, chan, cowner>>
                ELSE /\ chan' = [chan EXCEPT ![w] = Append(@, c)]
                     /\ cfate' = [cfate EXCEPT ![c] = "live"]
                     /\ cowner' = [cowner EXCEPT ![c] = w]
                     /\ accNext' = next_sender(w)
                     /\ UNCHANGED <<accState, accErr>>
    /\ UNCHANGED <<otherVars, cache, wpc, index, connections, cstate, cserver, cget,
                   tickStart, tickDone, ccalls>>

\* server.accept() fails
AcceptFail ==
    /\ accState = "running"
    /\ accState' = "stopped" /\ accErr' = "accept"
    /\ UNCHANGED <<otherVars, cache, accNext, nAccepted, chan, wpc, index, connections,
                   cstate, cserver, cget, cfate, cowner, tickStart, tickDone, ccalls>>

\* the intake of handle_connections (app.rs 137-146): a blocking recv when the
\* set is empty, else every connection try_recv yields
Intake(w) ==
    /\ wpc[w] = "sleep"
    /\ IF connections[w] = <<>>
       THEN /\ chan[w] # <<>>
            /\ connections' = [connections EXCEPT ![w] = <<Head(chan[w])>>]
            /\ chan' = [chan EXCEPT ![w] = Tail(@)]
       ELSE /\ connections' = [connections EXCEPT ![w] = @ \o chan[w]]
            /\ chan' = [chan EXCEPT ![w] = <<>>]
    /\ index' = [index EXCEPT ![w] = 1]
    /\ wpc' = [wpc EXCEPT ![w] = "loop"]
    /\ tickStart' = [tickStart EXCEPT ![w] = Range(connections'[w])]
    /\ tickDone' = [tickDone EXCEPT ![w] = {}]
    /\ ccalls' = [c \in DOMAIN ccalls |-> IF c \in Range(connections'[w]) THEN 0 ELSE ccalls[c]]
    /\ UNCHANGED <<otherVars, cache, accState, accNext, accErr, nAccepted,
                   cstate, cserver, cget, cfate, cowner>>

\* mutant: a disconnected channel ends the Worker whatever its set holds
WorkerStop_OnDisconnect(w) ==
    /\ wpc[w] = "sleep" /\ chan[w] = <<>>
    /\ accState = "stopped"
    /\ wpc' = [wpc EXCEPT ![w] = "stopped"]
    /\ UNCHANGED <<otherVars, cache, accState, accNext, accErr, nAccepted, chan, index,
                   connections, cstate, cserver, cget, cfate, cowner, tickStart, tickDone, ccalls>>

\* receiver.recv() fails: the set and the channel are empty and every sender
\* is dropped; Worker::run returns (app.rs 130-133, 139)
WorkerStop(w) ==
    /\ wpc[w] = "sleep" /\ connections[w] = <<>> /\ chan[w] = <<>>
    /\ accState = "stopped"
    /\ wpc' = [wpc EXCEPT ![w] = "stopped"]
    /\ UNCHANGED <<otherVars, cache, accState, accNext, accErr, nAccepted, chan, index,
                   connections, cstate, cserver, cget, cfate, cowner, tickStart, tickDone, ccalls>>

\* while index < self.connections.len() fails: the tick is over
LoopEnd(w) ==
    /\ wpc[w] = "loop" /\ index[w] > Len(connections[w])
    /\ wpc' = [wpc EXCEPT ![w] = "sleep"]
    /\ UNCHANGED <<otherVars, cache, accState, accNext, accErr, nAccepted, chan, index,
                   connections, cstate, cserver, cget, cfate, cowner, tickStart, tickDone, ccalls>>

\* the connection progress() is called on
Current(w) == connections[w][index[w]]
InLoop(w) == wpc[w] = "loop" /\ index[w] <= Len(connections[w])

\* mutant: index is advanced after the removal, as it is after a connection
\* that is not done
Finish_IndexAdvanced(w, c, fate) ==
    LET r == swap_remove(connections[w], index[w])
    IN  /\ connections' = [connections EXCEPT ![w] = r.conns]
        /\ wpc' = [wpc EXCEPT ![w] = IF r.brk THEN "sleep" ELSE "loop"]
        /\ cfate' = [cfate EXCEPT ![c] = fate]
        /\ tickDone' = [tickDone EXCEPT ![w] = @ \cup {c}]
        /\ ccalls' = [ccalls EXCEPT ![c] = Min(@ + 1, CallCap)]
        /\ index' = [index EXCEPT ![w] = @ + 1]

\* progress() reported done, or failed: the connection is removed (app.rs 154-178)
Finish(w, c, fate) ==
    LET r == swap_remove(connections[w], index[w])
    IN  /\ connections' = [connections EXCEPT ![w] = r.conns]
        /\ wpc' = [wpc EXCEPT ![w] = IF r.brk THEN "sleep" ELSE "loop"]
        /\ cfate' = [cfate EXCEPT ![c] = fate]
        /\ tickDone' = [tickDone EXCEPT ![w] = @ \cup {c}]
        /\ ccalls' = [ccalls EXCEPT ![c] = Min(@ + 1, CallCap)]
        /\ UNCHANGED index

\* what progress() and handle_connections do with the result r of a handler:
\* an error ends the connection, true calls the next handler at once, false
\* returns Ok(false) and the loop moves on (app.rs 204-212, 154-168)
Handled(w, c, r) ==
    IF r.kind = "err"
    THEN /\ Finish(w, c, r.err)
         /\ UNCHANGED cstate
    ELSE /\ cstate' = [cstate EXCEPT ![c] = r.state]
         /\ index' = [index EXCEPT ![w] = IF r.ret THEN @ ELSE @ + 1]
         /\ ccalls' = [ccalls EXCEPT ![c] = IF r.ret THEN @ ELSE Min(@ + 1, CallCap)]
         /\ UNCHANGED <<connections, wpc, cfate, tickDone>>

\* progress() in state Init
StepInit(w) ==
    /\ InLoop(w) /\ cstate[Current(w)] = "Init"
    /\ \E peek \in Peeks, answer \in SysAnswers, connectOk \in BOOLEAN :
         \E r \in {init(SpecHosts, peek, cache, answer, connectOk)} :
             /\ Handled(w, Current(w), r)
             /\ cserver' = [cserver EXCEPT ![Current(w)] = r.server]
             /\ cache' = r.cache
             /\ cget' = [cget EXCEPT ![Current(w)] =
                            IF ~peek.ok THEN @ ELSE IF peek.get THEN "get" ELSE "other"]
    /\ UNCHANGED <<otherVars, accState, accNext, accErr, nAccepted, chan, cowner, tickStart>>

\* progress() in state Conn
StepConn(w) ==
    /\ InLoop(w) /\ cstate[Current(w)] = "Conn"
    /\ \E peer \in PeerResults, nodelay \in NodelayResults :
         Handled(w, Current(w), connect(cserver[Current(w)], peer, nodelay))
    /\ UNCHANGED <<otherVars, cache, accState, accNext, accErr, nAccepted, chan,
                   cserver, cget, cowner, tickStart>>

\* progress() in state Send
StepSend(w) ==
    /\ InLoop(w) /\ cstate[Current(w)] = "Send"
    /\ \E read \in ReadResults, writeOk \in BOOLEAN :
         Handled(w, Current(w), send(cserver[Current(w)], read, writeOk))
    /\ UNCHANGED <<otherVars, cache, accState, accNext, accErr, nAccepted, chan,
                   cserver, cget, cowner, tickStart>>

\* progress() in state Recv
StepRecv(w) ==
    /\ InLoop(w) /\ cstate[Current(w)] = "Recv"
    /\ \E peek \in PeekResults, read \in ReadResults, writeOk \in BOOLEAN :
         Handled(w, Current(w), recv(cserver[Current(w)], peek, read, writeOk))
    /\ UNCHANGED <<otherVars, cache, accState, accNext, accErr, nAccepted, chan,
                   cserver, cget, cowner, tickStart>>

\* progress() in state Done returns Ok(true)
StepDone(w) ==
    /\ InLoop(w) /\ cstate[Current(w)] = "Done"
    /\ Finish(w, Current(w), "Done")
    /\ UNCHANGED <<otherVars, cache, accState, accNext, accErr, nAccepted, chan,
                   cstate, cserver, cget, cowner, tickStart>>

WorkerNext(w) ==
    \/ Intake(w) \/ WorkerStop(w) \/ LoopEnd(w)
    \/ StepInit(w) \/ StepConn(w) \/ StepSend(w) \/ StepRecv(w) \/ StepDone(w)

Next == Accept \/ AcceptFail \/ \E w \in Workers : WorkerNext(w)

Spec == Init /\ [][Next]_vars

\* C1: the state of a connection only changes along
\* Init -> Conn -> Send -> Recv -> Done, one step at a time: no handler skips
\* a state, none moves backward, and Done is never left.
Successor ==
    {<<"Init", "Conn">>, <<"Conn", "Send">>, <<"Send", "Recv">>, <<"Recv", "Done">>}

C1_SequentialStates ==
    [][\A c \in DOMAIN cstate :
          cstate'[c] # cstate[c] => <<cstate[c], cstate'[c]>> \in Successor]_vars

\* a connection that went through every state and was removed as done
C1_Witness == \E c \in DOMAIN cstate : cstate[c] = "Done" /\ cfate[c] = "Done"

\* C8: a request that does not start with GET is rejected in Init with
\* NotHttp, the connection is removed from its Worker, and its upstream
\* socket is still absent.
C8_NonGetRejected ==
    \A c \in DOMAIN cget :
        cget[c] = "other" =>
            /\ cstate[c] = "Init" /\ cfate[c] = "NotHttp" /\ ~cserver[c]
            /\ \A w \in DOMAIN connections : Count(connections[w], c) = 0

\* a request that is no GET has been peeked in full length and rejected,
\* while another connection got its upstream socket
C8_Witness ==
    \E c, d \in DOMAIN cget :
        cget[c] = "other" /\ cfate[c] = "NotHttp" /\ cget[d] = "get" /\ cserver[d]

\* C9: a per-connection error (in the set-up of the accepted socket or in a
\* state handler) ends only that connection: it is in no Worker's set, the
\* Acceptor keeps running unless server.accept() itself failed, and no Worker
\* has stopped while the Acceptor runs.
ConnErrors == {"setup", "NotHttp", "ParseError", "DnsError", "IOError", "Unknown"}

C9_ErrorIsLocal ==
    \A c \in DOMAIN cfate :
        cfate[c] \in ConnErrors =>
            /\ \A w \in DOMAIN connections :
                  Count(connections[w], c) = 0 /\ Count(chan[w], c) = 0
            /\ accState = "running" \/ accErr = "accept"
            /\ accState = "running" => \A w \in DOMAIN wpc : wpc[w] # "stopped"

\* C10: an accepted, not yet destroyed connection is in exactly one place, the
\* intake channel or the set of the Worker it was sent to, and in no other
\* Worker; any other connection is nowhere.
Places(w, c) == Count(chan[w], c) + Count(connections[w], c)

C10_SingleOwner ==
    \A c \in DOMAIN cfate :
        IF cfate[c] = "live"
        THEN /\ cowner[c] \in DOMAIN wpc
             /\ \A w \in DOMAIN wpc : Places(w, c) = (IF w = cowner[c] THEN 1 ELSE 0)
        ELSE \A w \in DOMAIN wpc : Places(w, c) = 0

\* two Workers own connections at once: one in a set next to a finished one
\* that was removed, one still in the channel
C10_Witness ==
    \E c, d, e \in DOMAIN cfate :
        /\ cfate[c] = "live" /\ cfate[d] = "live" /\ cowner[c] # cowner[d]
        /\ Count(connections[cowner[c]], c) = 1 /\ Count(chan[cowner[d]], d) = 1
        /\ cowner[e] = cowner[c] /\ cfate[e] \notin {"none", "live"}

\* C11: the k-th accepted connection (k = 0, 1, 2, ...) is handed to worker
\* k mod W, so the numbers of connections handed to any two workers differ by
\* at most one.
Dispatched(w) == Cardinality({c \in DOMAIN cowner : cowner[c] = w})

C11_RoundRobin ==
    /\ \A c \in DOMAIN cowner : cowner[c] # 0 => cowner[c] = ((c - 1) % NumWorkers) + 1
    /\ \A v, w \in DOMAIN wpc : Dispatched(v) - Dispatched(w) \in {-1, 0, 1}

\* every connection the Acceptor may accept has been handed to a worker, the
\* first worker having got one more than the last
C11_Witness ==
    /\ \A c \in DOMAIN cowner : cowner[c] # 0
    /\ Dispatched(1) = Dispatched(NumWorkers) + 1

(***************************************************************************)
(* TickSpec: the ticks of one Worker that owns up to MaxVec connections in *)
(* any of the states Init, Conn, Send and Recv.  The Worker has just ended *)
(* a tick in which nothing finished; the connections it has not taken yet  *)
(* wait in its channel.                                                    *)
(***************************************************************************)
TickIds == 1..MaxVec

TickInit ==
    /\ RouteIdle /\ DnsIdle /\ RelayIdle /\ ConnIdle /\ cache = {}
    /\ accState = "running" /\ accNext = 1 /\ accErr = "none" /\ nAccepted = MaxVec
    /\ \E k \in 1..MaxVec :
         /\ connections = [w \in Workers |-> IF w = 1 THEN [i \in 1..k |-> i] ELSE <<>>]
         /\ chan = [w \in Workers |-> IF w = 1 THEN [i \in 1..(MaxVec - k) |-> k + i] ELSE <<>>]
         /\ tickStart = [w \in Workers |-> IF w = 1 THEN 1..k ELSE {}]
         /\ cstate \in [TickIds -> {"Init", "Conn", "Send", "Recv"}]
         /\ \A c \in (k + 1)..MaxVec : cstate[c] = "Init"
    /\ cserver = [c \in TickIds |-> cstate[c] # "Init"]
    /\ cget = [c \in TickIds |-> IF cstate[c] = "Init" THEN "unseen" ELSE "get"]
    /\ cfate = [c \in TickIds |-> "live"]
    /\ cowner = [c \in TickIds |-> 1]
    /\ wpc = [w \in Workers |-> "sleep"]
    /\ index = [w \in Workers |-> 1]
    /\ tickDone = [w \in Workers |-> {}]
    /\ ccalls = [c \in TickIds |-> IF c \in tickStart[1] THEN 1 ELSE 0]

TickNext ==
    \E w \in Workers :
        \/ Intake(w) \/ LoopEnd(w)
        \/ StepInit(w) \/ StepConn(w) \/ StepSend(w) \/ StepRecv(w) \/ StepDone(w)

TickSpec == TickInit /\ [][TickNext]_vars

\* C2: when a tick of a Worker is over, its set holds exactly the connections
\* it held in the tick that did not finish, each of them once.
C2_RemovalCorrect ==
    \A w \in DOMAIN wpc :
        wpc[w] = "sleep" =>
            /\ Range(connections[w]) = tickStart[w] \ tickDone[w]
            /\ \A c \in Range(connections[w]) : Count(connections[w], c) = 1

\* a tick in which the first connection of the vector and another one
\* finished and one did not
C2_Witness ==
    /\ wpc[1] = "sleep" /\ Len(connections[1]) = 1
    /\ 1 \in tickDone[1] /\ Cardinality(tickDone[1]) = 2


\* C13: in one tick progress() is called exactly once on every connection that
\* is in the Worker's set after the intake: never twice, and when the tick is
\* over, once on each of them.
C13_EachOnce ==
    /\ \A c \in DOMAIN ccalls : ccalls[c] <= 1
    /\ \A w \in DOMAIN wpc :
          wpc[w] = "sleep" => \A c \in tickStart[w] : ccalls[c] = 1

\* a tick in which the first connection finished and the last one was moved
\* into its slot
C13_Witness ==
    /\ wpc[1] = "sleep" /\ tickDone[1] = {1}
    /\ connections[1] = <<MaxVec, 2>> /\ ccalls[MaxVec] = 1 /\ ccalls[2] = 1


(***************************************************************************)
(* MainSpec: the locked-list workers of main.rs.  The accept loop pushes   *)
(* every accepted connection, in state Send, onto the list of the worker   *)
(* in turn while it holds the lock of that list; a worker that gets the    *)
(* lock of its list and finds it non-empty makes one pass of               *)
(* handle_connections over it.  The variables of Spec are used with the    *)
(* same meaning, connections[w] being the list of worker w and wpc[w] =    *)
(* "loop" the time the worker holds the lock.  When start returns the      *)
(* process exits, and its detached worker threads with it.                 *)
(***************************************************************************)
\* the size of the buffer of a worker thread, scaled down from 1280 bytes to
\* the length of a short request head
TCP_MSS == 14

MainReadResults == {OtherError, WouldBlock} \cup (0..TCP_MSS)

\* send of main.rs (main.rs 324-347); initOk tells whether init (check_http,
\* resolve, connect, socket options) succeeded on the bytes read, timeoutOk
\* whether client.set_read_timeout did
main_send(read, initOk, writeOk, timeoutOk) ==
    IF read < 0 THEN Ok(FALSE, "Send", 0)
    ELSE IF ~initOk THEN Err("InitError", "Send", read)
    ELSE IF ~writeOk THEN Err("IOError", "Send", read)
    ELSE IF read >= TCP_MSS THEN Ok(TRUE, "Send", read)
    ELSE IF ~timeoutOk THEN Err("IOError", "Recv", read)
    ELSE Ok(TRUE, "Recv", read)

\* connection.server after send: get_or_insert is reached when init succeeded
main_server(server, read, initOk) == server \/ (read >= 0 /\ initOk)

MainInit ==
    /\ RouteIdle /\ DnsIdle /\ RelayIdle /\ ConnIdle /\ cache = {}
    /\ accState = "running" /\ accNext = 1 /\ accErr = "none" /\ nAccepted = 0
    /\ chan = [w \in Workers |-> <<>>]
    /\ wpc = [w \in Workers |-> "sleep"]
    /\ index = [w \in Workers |-> 1]
    /\ connections = [w \in Workers |-> <<>>]
    /\ cstate = [c \in Ids |-> "Send"]
    /\ cserver = [c \in Ids |-> FALSE]
    /\ cget = [c \in Ids |-> "unseen"]
    /\ cfate = [c \in Ids |-> "none"]
    /\ cowner = [c \in Ids |-> 0]
    /\ tickStart = [w \in Workers |-> {}]
    /\ tickDone = [w \in Workers |-> {}]
    /\ ccalls = [c \in Ids |-> 0]

\* one round of the accept loop of start (main.rs 133-148): the lock of the
\* list is free only while its worker is not in a pass
MainAccept ==
    /\ accState = "running" /\ nAccepted < MaxConns
    /\ wpc[accNext] = "sleep"
    /\ \E ok \in BOOLEAN :
         IF ok
         THEN /\ connections' = [connections EXCEPT ![accNext] = Append(@, nAccepted + 1)]
              /\ cfate' = [cfate EXCEPT ![nAccepted + 1] = "live"]
              /\ cowner' = [cowner EXCEPT ![nAccepted + 1] = accNext]
              /\ accNext' = next_sender(accNext)
              /\ nAccepted' = nAccepted + 1
              /\ UNCHANGED <<accState, accErr>>
         ELSE /\ accState' = "stopped" /\ accErr' = "accept"
              /\ UNCHANGED <<connections, cfate, cowner, accNext, nAccepted>>
    /\ UNCHANGED <<otherVars, cache, chan, wpc, index, cstate, cserver, cget,
                   tickStart, tickDone, ccalls>>

\* run_worker_thread gets the lock and the list is not empty (main.rs 162-174)
MainPass(w) ==
    /\ accState = "running" /\ wpc[w] = "sleep" /\ connections[w] # <<>>
    /\ wpc' = [wpc EXCEPT ![w] = "loop"]
    /\ index' = [index EXCEPT ![w] = 1]
    /\ tickStart' = [tickStart EXCEPT ![w] = Range(connections[w])]
    /\ tickDone' = [tickDone EXCEPT ![w] = {}]
    /\ ccalls' = [c \in DOMAIN ccalls |-> IF c \in Range(connections[w]) THEN 0 ELSE ccalls[c]]
    /\ UNCHANGED <<otherVars, cache, accState, accNext, accErr, nAccepted, chan, connections,
                   cstate, cserver, cget, cfate, cowner>>

\* while index < connections.len() fails: the pass is over, the lock is freed
MainLoopEnd(w) ==
    /\ accState = "running" /\ wpc[w] = "loop" /\ index[w] > Len(connections[w])
    /\ wpc' = [wpc EXCEPT ![w] = "sleep"]
    /\ UNCHANGED <<otherVars, cache, accState, accNext, accErr, nAccepted, chan, index,
                   connections, cstate, cserver, cget, cfate, cowner, tickStart, tickDone, ccalls>>

\* the removal of main.rs (main.rs 207-217): the last connection is stored at
\* index and index is advanced
MainFinish(w, c, fate) ==
    LET r == swap_remove(connections[w], index[w])
    IN  /\ connections' = [connections EXCEPT ![w] = r.conns]
        /\ wpc' = [wpc EXCEPT ![w] = IF r.brk THEN "sleep" ELSE "loop"]
        /\ index' = [index EXCEPT ![w] = IF r.brk THEN @ ELSE @ + 1]
        /\ cfate' = [cfate EXCEPT ![c] = fate]
        /\ tickDone' = [tickDone EXCEPT ![w] = @ \cup {c}]
        /\ ccalls' = [ccalls EXCEPT ![c] = Min(@ + 1, CallCap)]

\* what progress and handle_connections of main.rs do with the result r of a
\* handler (main.rs 231-237, 191-203)
MainHandled(w, c, r) ==
    IF r.kind = "err"
    THEN /\ MainFinish(w, c, r.err)
         /\ cstate' = [cstate EXCEPT ![c] = r.state]
    ELSE /\ cstate' = [cstate EXCEPT ![c] = r.state]
         /\ index' = [index EXCEPT ![w] = IF r.ret THEN @ ELSE @ + 1]
         /\ ccalls' = [ccalls EXCEPT ![c] = IF r.ret THEN @ ELSE Min(@ + 1, CallCap)]
         /\ UNCHANGED <<connections, wpc, cfate, tickDone>>

MainInLoop(w) == accState = "running" /\ InLoop(w)

\* progress of main.rs in state Send
MainStepSend(w) ==
    /\ MainInLoop(w) /\ cstate[Current(w)] = "Send"
    /\ \E read \in MainReadResults, initOk \in BOOLEAN, writeOk \in BOOLEAN,
          timeoutOk \in BOOLEAN :
         /\ MainHandled(w, Current(w), main_send(read, initOk, writeOk, timeoutOk))
         /\ cserver' = [cserver EXCEPT ![Current(w)] = main_server(@, read, initOk)]
    /\ UNCHANGED <<otherVars, cache, accState, accNext, accErr, nAccepted, chan,
                   cget, cowner, tickStart>>

\* progress of main.rs in state Recv
MainStepRecv(w) ==
    /\ MainInLoop(w) /\ cstate[Current(w)] = "Recv"
    /\ \E peek \in PeekResults, read \in MainReadResults, writeOk \in BOOLEAN :
         MainHandled(w, Current(w), recv(cserver[Current(w)], peek, read, writeOk))
    /\ UNCHANGED <<otherVars, cache, accState, accNext, accErr, nAccepted, chan,
                   cserver, cget, cowner, tickStart>>

\* progress of main.rs in state Done returns Ok(true)
MainStepDone(w) ==
    /\ MainInLoop(w) /\ cstate[Current(w)] = "Done"
    /\ MainFinish(w, Current(w), "Done")
    /\ UNCHANGED <<otherVars, cache, accState, accNext, accErr, nAccepted, chan,
                   cstate, cserver, cget, cowner, tickStart>>

MainNext ==
    \/ MainAccept
    \/ \E w \in Workers :
          \/ MainPass(w) \/ MainLoopEnd(w)
          \/ MainStepSend(w) \/ MainStepRecv(w) \/ MainStepDone(w)

MainSpec == MainInit /\ [][MainNext]_vars

\* C14: in one pass of handle_connections of main.rs progress() is called
\* exactly once on every connection of the list, the one moved into the slot
\* of a finished connection included, and no connection that is still active
\* is removed.
C14_MainEachOnce ==
    /\ \A c \in DOMAIN ccalls : ccalls[c] <= 1
    /\ \A w \in DOMAIN wpc :
          wpc[w] = "sleep" =>
              /\ \A c \in tickStart[w] : ccalls[c] = 1
              /\ tickStart[w] \ tickDone[w] \subseteq Range(connections[w])

\* the parts of C14 that hold: no connection is called twice in a pass and
\* no connection that did not finish is removed
C14_MainNoneTwiceNoneLost ==
    /\ \A c \in DOMAIN ccalls : ccalls[c] <= 1
    /\ \A w \in DOMAIN wpc :
          wpc[w] = "sleep" => tickStart[w] \ tickDone[w] \subseteq Range(connections[w])


\* C20: the upstream socket of a connection is absent exactly when its state
\* is Init; it is set in the step from Init to Conn and in no other step, and
\* never cleared; no connection ends with the error Unknown.
C20_ServerIffPastInit ==
    /\ [](\A c \in DOMAIN cstate :
             /\ cserver[c] <=> cstate[c] # "Init"
             /\ cfate[c] # "Unknown")
    /\ [][\A c \in DOMAIN cstate :
             cserver'[c] # cserver[c] =>
                 ~cserver[c] /\ cstate[c] = "Init" /\ cstate'[c] = "Conn"]_vars

\* one live connection is receiving with its upstream socket while another
\* one is still in Init without one
C20_Witness ==
    \E c, d \in DOMAIN cstate :
        /\ cfate[c] = "live" /\ cstate[c] = "Recv" /\ cserver[c]
        /\ cfate[d] = "live" /\ cstate[d] = "Init" /\ ~cserver[d]


(***************************************************************************)
(* FairSpec: Spec with every Worker thread scheduled again and again       *)
(* (Worker::run sleeps for WORKER_DELAY and calls handle_connections in an *)
(* endless loop).  Nothing is assumed about the clients, the upstreams or  *)
(* the listener.                                                           *)
(***************************************************************************)
FairSpec == Spec /\ \A w \in Workers : WF_vars(WorkerNext(w))

\* thread::scope has joined every Worker thread and App::start has returned
\* the error of the accept loop
StartReturned == accState = "stopped" /\ \A w \in DOMAIN wpc : wpc[w] = "stopped"

\* C16: once the Acceptor has stopped and dropped every sender, every Worker
\* eventually leaves its loop.
C16_WorkerTerminates ==
    \A w \in Workers : (accState = "stopped") ~> (wpc[w] = "stopped")

\* C17: once accept, or the hand-off to a Worker, has failed in the accept
\* loop, App::start eventually returns the error.
C17_ErrorSurfaced ==
    (accErr \in {"accept", "send"}) ~> StartReturned

\* the Acceptor has stopped and a Worker whose set was empty has left its loop
C16_IdleWorkerStops ==
    \E w \in DOMAIN wpc : accState = "stopped" /\ wpc[w] = "stopped"


\* C21: a Worker leaves its loop only from an empty set with an empty,
\* disconnected channel: never while it owns a live connection, never while
\* the Acceptor still holds its sender; with a non-empty set a disconnected
\* channel is ignored and the tick goes on.
C21_StopsOnlyWhenIdle ==
    /\ [](\A w \in DOMAIN wpc :
             wpc[w] = "stopped" =>
                 /\ connections[w] = <<>> /\ chan[w] = <<>>
                 /\ accState = "stopped"
                 /\ \A c \in DOMAIN cowner : cowner[c] = w => cfate[c] # "live")
    /\ [][\A w \in DOMAIN wpc :
             /\ wpc'[w] = "stopped" /\ wpc[w] # "stopped" =>
                    /\ wpc[w] = "sleep" /\ connections[w] = <<>> /\ chan[w] = <<>>
                    /\ accState = "stopped"
             /\ wpc[w] = "sleep" /\ connections[w] # <<>> /\ accState = "stopped" =>
                    wpc'[w] \in {"sleep", "loop"} /\ Len(connections'[w]) >= Len(connections[w])]_vars

\* a Worker has left its loop after the Acceptor stopped and the connection
\* it had been given came to its end
C21_Witness ==
    \E w \in DOMAIN wpc :
        /\ wpc[w] = "stopped" /\ accState = "stopped"
        /\ \E c \in DOMAIN cowner : cowner[c] = w /\ cfate[c] = "Done"

\* a Worker is in a tick over its connection although its channel is
\* disconnected
C21_DisconnectIgnored ==
    \E w \in DOMAIN wpc :
        /\ accState = "stopped" /\ chan[w] = <<>> /\ InLoop(w)
        /\ cstate[Current(w)] = "Recv"


(***************************************************************************)
(* ConnSpec: one connection of one Worker.  The client and the upstream    *)
(* are free to stall, to send for ever, to close and to reset; the         *)
(* upstream connect is non-blocking (mio::net::TcpStream) and completes or *)
(* fails after Connection::init has returned.  What a socket operation     *)
(* returns follows from the state of its peer:                             *)
(*   client open      peek/read: WouldBlock or bytes                       *)
(*   client closed    peek/read: 0                                         *)
(*   client reset     peek/read: the error, once; end-of-stream afterwards *)
(*   upstream pending, failed or reset   peer_addr: NotConnected           *)
(*   upstream connected                  read: WouldBlock or bytes         *)
(*   upstream closed                     read: 0                           *)
(*   upstream reset                      read: the error, once             *)
(* A write succeeds, finds the send buffer full (WouldBlock) or fails.     *)
(* The Worker ticks for ever; a tick calls progress(), which calls the     *)
(* handler of the current state until one returns Ok(false) or an error,   *)
(* or the state is Done.                                                   *)
(***************************************************************************)
SpinMod == 2

WriteResults == {"ok", "WouldBlock", "error"}

\* what the client has in its receive queue when Connection::init peeks
CliPeeks(cli) ==
    IF cli = "open" THEN {pk \in Peeks : ~pk.ok \/ Len(pk.data) > 0}
    ELSE IF cli = "closed" THEN {pk \in Peeks : pk.ok /\ Len(pk.data) = 0}
    ELSE {[ok |-> FALSE]}

\* client.read(buf) in Connection::send
CliReads(cli) ==
    IF cli = "open" THEN {WouldBlock} \cup (1..BUFFER_SIZE)
    ELSE IF cli = "closed" THEN {0}
    ELSE {OtherError}

\* client.peek(1 byte) in Connection::recv
CliPeek1(cli) ==
    IF cli = "open" THEN {WouldBlock, 1}
    ELSE IF cli = "closed" THEN {0}
    ELSE {OtherError}

\* a pending socket error is reported by one operation and cleared by it
CliAfter(cli) == IF cli = "reset" THEN "closed" ELSE cli

\* server.peer_addr() in Connection::connect
UpPeer(up) ==
    (IF up \in {"connected", "closed"} THEN {"ok"} ELSE {"NotConnected"}) \cup {"error"}

\* server.set_nodelay(true) in Connection::connect
UpNodelay(up) ==
    IF up = "connected" THEN {"ok", "error"} ELSE NodelayResults

\* server.read(buf) in Connection::recv
UpReads(up) ==
    IF up = "connected" THEN {WouldBlock} \cup (1..BUFFER_SIZE)
    ELSE IF up = "closed" THEN {0}
    ELSE {OtherError}

UpAfter(up) == IF up = "reset" THEN "closed" ELSE up

\* write_all on a socket whose peer is in state p
Writes(p) == IF p \in {"open", "connected"} THEN WriteResults ELSE {"ok", "error"}

ConnInit ==
    /\ RouteIdle /\ DnsIdle /\ RelayIdle /\ SysIdle /\ cache = {}
    /\ kState = "Init" /\ kServer = FALSE /\ kCli = "open" /\ kUp = "none"
    /\ kPc = "sleep" /\ kLast = KNone /\ kSpin = 0
    /\ kBuf = <<>> /\ kInits = 0

connOther == <<routeVars, dnsVars, relayVars, sysVars, kBuf, kInits>>

\* Worker::handle_connections reaches the connection (app.rs 148-154)
KTick ==
    /\ kPc = "sleep"
    /\ kPc' = "call" /\ kLast' = KNone /\ kSpin' = 0
    /\ UNCHANGED <<connOther, cache, kState, kServer, kCli, kUp>>

\* one handler call inside Connection::progress (app.rs 204-212) with result
\* r, and what handle_connections does with an error (app.rs 154-170);
\* failed names the socket operation that failed other than by WouldBlock
KReturn(h, failed, r) ==
    /\ kLast' = [handler |-> h, failed |-> failed, kind |-> r.kind, ret |-> r.ret]
    /\ kState' = r.state
    /\ kPc' = IF r.kind = "err" THEN "removed" ELSE IF r.ret THEN "call" ELSE "sleep"
    /\ kSpin' = IF r.kind = "ok" /\ r.ret THEN (kSpin + 1) % SpinMod ELSE kSpin
    /\ UNCHANGED connOther

KInit ==
    /\ kPc = "call" /\ kState = "Init"
    /\ \E pk \in CliPeeks(kCli), answer \in 0..NumAddrs, connectOk \in BOOLEAN :
         \E r \in {init(SpecHosts, pk, cache, answer, connectOk)} :
            /\ KReturn("init",
                       IF kCli = "reset" THEN "client.peek"
                       ELSE IF r.kind = "err" /\ r.err = "IOError" THEN "connect"
                       ELSE "none", r)
            /\ kServer' = r.server
            /\ cache' = r.cache
            /\ kUp' = IF r.server THEN "pending" ELSE kUp
            /\ kCli' = CliAfter(kCli)

KConn ==
    /\ kPc = "call" /\ kState = "Conn"
    /\ \E peer \in UpPeer(kUp), nodelay \in UpNodelay(kUp) :
         /\ KReturn("connect",
                    IF peer = "error" THEN "server.peer_addr"
                    ELSE IF peer = "ok" /\ nodelay = "error" THEN "server.set_nodelay"
                    ELSE "none",
                    connect(kServer, peer, nodelay))
         /\ UNCHANGED <<cache, kServer, kCli, kUp>>

KSend ==
    /\ kPc = "call" /\ kState = "Send"
    /\ \E read \in CliReads(kCli), w \in Writes(kUp) :
         /\ KReturn("send",
                    IF read = OtherError THEN "client.read"
                    ELSE IF read > 0 /\ w = "error" THEN "server.write"
                    ELSE "none",
                    send(kServer, read, w = "ok"))
         /\ kCli' = CliAfter(kCli)
         /\ UNCHANGED <<cache, kServer, kUp>>

KRecv ==
    /\ kPc = "call" /\ kState = "Recv"
    /\ \E peek \in CliPeek1(kCli), read \in UpReads(kUp), w \in Writes(kCli) :
         /\ KReturn("recv",
                    IF peek = OtherError THEN "client.peek"
                    ELSE IF peek = 0 THEN "none"
                    ELSE IF read = OtherError THEN "server.read"
                    ELSE IF read > 0 /\ w = "error" THEN "client.write"
                    ELSE "none",
                    recv(kServer, peek, read, w = "ok"))
         /\ kCli' = CliAfter(kCli)
         /\ kUp' = IF peek \in {0, OtherError} THEN kUp ELSE UpAfter(kUp)
         /\ UNCHANGED <<cache, kServer>>

\* progress() returns Ok(true) in Done and the Worker removes the connection
KDone ==
    /\ kPc = "call" /\ kState = "Done"
    /\ kPc' = "removed"
    /\ UNCHANGED <<connOther, cache, kState, kServer, kCli, kUp, kLast, kSpin>>

KWorker == KTick \/ KInit \/ KConn \/ KSend \/ KRecv \/ KDone

\* the peers
CliClose ==
    /\ kPc # "removed" /\ kCli = "open"
    /\ kCli' = "closed"
    /\ UNCHANGED <<connOther, cache, kState, kServer, kUp, kPc, kLast, kSpin>>

CliReset ==
    /\ kPc # "removed" /\ kCli = "open"
    /\ kCli' = "reset"
    /\ UNCHANGED <<connOther, cache, kState, kServer, kUp, kPc, kLast, kSpin>>

UpConnect ==
    /\ kPc # "removed" /\ kUp = "pending"
    /\ kUp' = "connected"
    /\ UNCHANGED <<connOther, cache, kState, kServer, kCli, kPc, kLast, kSpin>>

UpFail ==
    /\ kPc # "removed" /\ kUp = "pending"
    /\ kUp' = "failed"
    /\ UNCHANGED <<connOther, cache, kState, kServer, kCli, kPc, kLast, kSpin>>

UpClose ==
    /\ kPc # "removed" /\ kUp = "connected"
    /\ kUp' = "closed"
    /\ UNCHANGED <<connOther, cache, kState, kServer, kCli, kPc, kLast, kSpin>>

UpReset ==
    /\ kPc # "removed" /\ kUp = "connected"
    /\ kUp' = "reset"
    /\ UNCHANGED <<connOther, cache, kState, kServer, kCli, kPc, kLast, kSpin>>

ConnNext ==
    \/ KWorker
    \/ CliClose \/ CliReset
    \/ UpConnect \/ UpFail \/ UpClose \/ UpReset

ConnSpec == ConnInit /\ [][ConnNext]_vars

\* the Worker thread keeps running, and a pending connect completes or fails
ConnFairSpec ==
    ConnSpec /\ WF_vars(KWorker) /\ WF_vars(UpConnect \/ UpFail)

\* C15: a socket operation of a state handler that fails with an error other
\* than would-block makes the handler return an error, and the Worker removes
\* the connection in that tick.
C15_FatalErrors ==
    kLast.failed # "none" => kLast.kind = "err" /\ kPc = "removed"

\* C18: every call of Connection::progress returns, whatever the two peers do.
C18_ProgressTerminates == (kPc = "call") ~> (kPc # "call")

\* C19: a connection in a non-terminal state whose client has disconnected
\* (close or reset) is eventually removed, given that the Worker keeps ticking.
C19_StalledRemoved ==
    (kCli # "open" /\ kPc # "removed" /\ kState # "Done") ~> (kPc = "removed")


(***************************************************************************)
(* MainConnSpec: one connection of main.rs and the bytes of its client.    *)
(* The client sends its request in segments, closes or resets; a read      *)
(* takes what has arrived, at most TCP_MSS bytes.  send passes the bytes   *)
(* it read to init (check_http, resolve, TcpStream::connect and the socket *)
(* options), which are computed on those bytes.  The upstream connect of   *)
(* main.rs is a blocking one, so the upstream is connected when init       *)
(* returns.                                                                *)
(***************************************************************************)
InitCap == 2
MaxQueue == 17

\* HOST_HEADER of main.rs (main.rs 42)
MAIN_HOST_HEADER == <<"\n", "H", "o", "s", "t", ":">>

\* a request head that fills the buffer, a shorter one for a host that is
\* not proxied, and bytes that follow a head
HeadFull == <<"G", "E", "T", " ", "/", "x", "\n", "H", "o", "s", "t", ":", "a", "\n">>
HeadShort == <<"G", "E", "T", " ", "/", "\n", "H", "o", "s", "t", ":", "b", "\n">>
BodyBytes == <<"x", "y", "z">>
MainSegments == {HeadFull, HeadShort, BodyBytes}

\* str::find: the first position of p in s, or 0
Find(s, p) ==
    IF contains(s, p)
    THEN CHOOSE i \in 1..Len(s) :
            /\ starts_with(SubSeq(s, i, Len(s)), p)
            /\ \A j \in 1..(i - 1) : ~starts_with(SubSeq(s, j, Len(s)), p)
    ELSE 0

\* the rest of resolve of main.rs (main.rs 276-321): s is what follows the
\* Host header name
main_route(hosts, s, end, cch, answer) ==
    IF end = 0
    THEN [kind |-> "err", err |-> "ParseError", cache |-> cch]
    ELSE IF trim(SubSeq(s, 1, end - 1)) \in hosts
    THEN [kind |-> "ok", err |-> "none", cache |-> cch]
    ELSE [kind |-> Dns_resolve(cch, trim(SubSeq(s, 1, end - 1)), answer).kind,
          err |-> "ParseError",
          cache |-> Dns_resolve(cch, trim(SubSeq(s, 1, end - 1)), answer).cache]

main_after_header(hosts, s, cch, answer) ==
    main_route(hosts, s, Find(s, <<"\n">>), cch, answer)

\* resolve of main.rs (main.rs 261-322)
main_resolve(hosts, buf, pos, cch, answer) ==
    IF ~from_utf8(buf) \/ pos = 0
    THEN [kind |-> "err", err |-> "ParseError", cache |-> cch]
    ELSE main_after_header(hosts, SubSeq(buf, pos + Len(MAIN_HOST_HEADER), Len(buf)),
                           cch, answer)

\* the end of init of main.rs (main.rs 251-254): r is the result of resolve
main_connect(r, connectOk, optsOk) ==
    IF r.kind = "err" THEN [kind |-> "err", err |-> r.err, cache |-> r.cache, connected |-> FALSE]
    ELSE IF ~connectOk THEN [kind |-> "err", err |-> "IOError", cache |-> r.cache, connected |-> FALSE]
    ELSE IF ~optsOk THEN [kind |-> "err", err |-> "IOError", cache |-> r.cache, connected |-> TRUE]
    ELSE [kind |-> "ok", err |-> "none", cache |-> r.cache, connected |-> TRUE]

\* init of main.rs (main.rs 240-255)
main_init(hosts, buf, cch, answer, connectOk, optsOk) ==
    IF ~check_http(buf)
    THEN [kind |-> "err", err |-> "NotHttp", cache |-> cch, connected |-> FALSE]
    ELSE main_connect(main_resolve(hosts, buf, Find(buf, MAIN_HOST_HEADER), cch, answer),
                      connectOk, optsOk)

\* connection.client.read(buf) (main.rs 332)
MainRead(queue, cli) ==
    IF queue # <<>> THEN Min(Len(queue), TCP_MSS)
    ELSE IF cli = "open" THEN WouldBlock
    ELSE IF cli = "closed" THEN 0
    ELSE OtherError

\* connection.client.peek of one byte (main.rs 354)
MainPeek(queue, cli) ==
    IF queue # <<>> THEN 1
    ELSE IF cli = "open" THEN WouldBlock
    ELSE IF cli = "closed" THEN 0
    ELSE OtherError

MainConnInit ==
    /\ RouteIdle /\ DnsIdle /\ RelayIdle /\ SysIdle /\ cache = {}
    /\ kState = "Send" /\ kServer = FALSE /\ kCli = "open" /\ kUp = "none"
    /\ kPc = "sleep" /\ kLast = KNone /\ kSpin = 0
    /\ kBuf = <<>> /\ kInits = 0

mainOther == <<routeVars, dnsVars, relayVars, sysVars>>

\* the client sends a segment
MainCliSend ==
    /\ kPc # "removed" /\ kCli = "open"
    /\ \E seg \in MainSegments :
         /\ Len(kBuf) + Len(seg) <= MaxQueue
         /\ kBuf' = kBuf \o seg
    /\ UNCHANGED <<mainOther, cache, kState, kServer, kCli, kUp, kPc, kLast, kSpin, kInits>>

\* handle_connections of main.rs reaches the connection (main.rs 186-193)
MainConnTick == KTick

\* what progress and handle_connections of main.rs do with the result r of a
\* handler (main.rs 231-237, 193-205)
MainConnReturn(r) ==
    /\ kState' = r.state
    /\ kPc' = IF r.kind = "err" THEN "removed" ELSE IF r.ret THEN "call" ELSE "sleep"
    /\ kSpin' = IF r.kind = "ok" /\ r.ret THEN (kSpin + 1) % SpinMod ELSE kSpin
    /\ UNCHANGED mainOther

\* one call of send (main.rs 324-347) on the bytes that have arrived: i is
\* the result of init on the bytes read, r that of send
MainConnSent(read, i, r) ==
    /\ MainConnReturn(r)
    /\ kLast' = [handler |-> "send", failed |-> "none", kind |-> r.kind, ret |-> r.ret,
                 had |-> kServer,
                 init |-> IF read < 0 THEN "none" ELSE IF i.kind = "ok" THEN "ok" ELSE i.err,
                 connected |-> read >= 0 /\ i.connected]
    /\ kServer' = main_server(kServer, read, i.kind = "ok")
    /\ kInits' = IF read >= 0 THEN Min(kInits + 1, InitCap) ELSE kInits
    /\ cache' = IF read >= 0 THEN i.cache ELSE cache
    /\ kBuf' = IF read > 0 THEN SubSeq(kBuf, read + 1, Len(kBuf)) ELSE kBuf
    /\ kCli' = IF kBuf = <<>> THEN CliAfter(kCli) ELSE kCli
    /\ kUp' = IF kUp = "none" /\ read >= 0 /\ i.kind = "ok" THEN "connected" ELSE kUp

MainConnSend ==
    /\ kPc = "call" /\ kState = "Send"
    /\ \E answer \in SysAnswers, connectOk \in BOOLEAN, optsOk \in BOOLEAN,
          writeOk \in BOOLEAN, timeoutOk \in BOOLEAN :
         \E read \in {MainRead(kBuf, kCli)} :
            \E i \in {main_init(SpecHosts, SubSeq(kBuf, 1, IF read > 0 THEN read ELSE 0),
                                cache, answer, connectOk, optsOk)} :
               MainConnSent(read, i, main_send(read, i.kind = "ok", writeOk, timeoutOk))

\* one call of recv (main.rs 349-373)
MainConnRecv ==
    /\ kPc = "call" /\ kState = "Recv"
    /\ \E read \in UpReads(kUp), w \in Writes(kCli) :
         \E peek \in {MainPeek(kBuf, kCli)} :
            \E r \in {recv(kServer, peek, read, w = "ok")} :
               /\ MainConnReturn(r)
               /\ kLast' = [handler |-> "recv", failed |-> "none", kind |-> r.kind, ret |-> r.ret]
               /\ kCli' = IF kBuf = <<>> THEN CliAfter(kCli) ELSE kCli
               /\ kUp' = IF peek \in {0, OtherError} THEN kUp ELSE UpAfter(kUp)
    /\ UNCHANGED <<cache, kServer, kBuf, kInits>>

\* progress of main.rs in state Done returns Ok(true) (main.rs 234)
MainConnDone == KDone

MainConnNext ==
    \/ MainConnTick \/ MainConnSend \/ MainConnRecv \/ MainConnDone
    \/ MainCliSend \/ CliClose \/ CliReset
    \/ UpClose \/ UpReset

MainConnSpec == MainConnInit /\ [][MainConnNext]_vars

\* C22: over the life of a connection of main.rs init (request check,
\* routing, upstream connect) is called at most once, on the first chunk;
\* a chunk read in Send when the upstream socket is already there is written
\* to it without a call of init and without another connect.
C22_InitOnce ==
    /\ kInits <= 1
    /\ kLast.handler = "send" /\ kLast.had =>
           kLast.init = "none" /\ ~kLast.connected

\* what does hold: the upstream socket, once set, stays, and init has been
\* called by then
C22_ServerKept ==
    /\ [](kServer => kInits >= 1)
    /\ [][kServer => kServer']_vars

====
